---- MODULE Spec2Model ----
(***************************************************************************)
(* Model of tables.py: the converter registry (ModelTableConverterBase),   *)
(* the row/field renderer (html_table), the HTTP view dispatcher           *)
(* (MetadataView) and the seed command (init_data).                        *)
(*                                                                         *)
(* Text is modelled as a sequence of tokens in which the characters that   *)
(* markupsafe.escape rewrites ("<", ">", "&", quotes) are tokens of their  *)
(* own, so that a tag is the three tokens "<", name, ">" and escaping is   *)
(* something the model computes.  A dotted Python name is the sequence of  *)
(* its components.  None is the empty sequence and a present value x is    *)
(* the one-element sequence <<x>> wherever the code distinguishes them.    *)
(***************************************************************************)
EXTENDS Integers, Sequences, FiniteSets, TLC

\* ------------------------------------------------------------------ bounds
\* number of HTTP requests a behaviour issues
MaxRequests == 2
\* rows per table that the database may hold before the program starts
MaxPreRows == 1
\* times the seed command is run
MaxSeedRuns == 2

None == <<>>
Some(x) == <<x>>

\* ------------------------------------------------- converter registry ----

\* names bound at module level of tables.py (imports, classes, functions)
ModuleGlobals ==
  {"os", "flask", "markupsafe", "sa", "sqlalchemy", "wtforms", "Base", "Item",
   "Account", "Order", "OrderItem", "Table", "ModelTableConversionError",
   "ModelTableConverterBase", "converts", "ModelTableConverter",
   "MetadataView", "mapped_class_from_tablename", "model_columns",
   "model_table", "key_from_property", "th_from_property", "ul", "td",
   "html_table", "item_table", "database", "engine", "add_commands",
   "add_pluggables", "create_app"}

\* the column types a lookup is tried on: each with its class name, its
\* defining module and its method resolution order (most specific first)
TypeNames == {"String", "Text", "Integer", "Boolean"}

TypeModule ==
  [n \in {"String", "Text", "Integer", "Boolean", "Concatenable", "TypeEngine", "object"} |->
     CASE n = "TypeEngine" -> <<"sqlalchemy", "sql", "type_api">>
       [] n = "object" -> <<"builtins">>
       [] OTHER -> <<"sqlalchemy", "sql", "sqltypes">>]

getmro(t) ==
  CASE t = "String" -> <<"String", "Concatenable", "TypeEngine", "object">>
    [] t = "Text" -> <<"Text", "String", "Concatenable", "TypeEngine", "object">>
    [] t = "Integer" -> <<"Integer", "TypeEngine", "object">>
    [] t = "Boolean" -> <<"Boolean", "TypeEngine", "object">>

\* def converts(*args): returns the function as it is; no attribute is set
converts(args, func) == func

\* the handler methods of ModelTableConverter, as the class body defines them
conv_String == converts(<<"String">>, [name |-> "conv_String", _converter_for |-> None])

HandlerMethods == {conv_String}

\* what the class body declares through converts(...): (type name, handler)
ConvertsDeclarations == {<<"String", "conv_String">>}

\* the extra_converters argument: None or a dict from identifier to handler
ExtraConverterChoices ==
  { None,
    Some([k \in {<<"Integer">>} |-> "conv_Integer"]),
    Some([k \in {<<"sql", "sqltypes", "String">>, <<"Text">>} |->
            IF k = <<"Text">> THEN "conv_Text" ELSE "conv_QualifiedString"]) }

\* ModelTableConverterBase.__init__: the object's attributes afterwards, and
\* the local dict `converters` it filled (never stored on the object)
ConverterInit(extra_converters, use_mro) ==
  LET start == IF extra_converters = None THEN <<>> ELSE extra_converters[1]
      declared == UNION {{<<Some(h._converter_for[1][i]), h.name>> :
                            i \in DOMAIN h._converter_for[1]} :
                          h \in {m \in HandlerMethods : m._converter_for # None}}
      keys == DOMAIN start \cup {d[1] : d \in declared}
      filled == [k \in keys |->
                   IF \E d \in declared : d[1] = k
                   THEN (CHOOSE d \in declared : d[1] = k)[2]
                   ELSE start[k]]
  IN [attrs |-> [a \in {"use_mro"} |-> use_mro],
      local_converters |-> filled]

\* f'{col_type.__module__}.{col_type.__name__}' with the prefix 'sqlalchemy.'
\* removed when present
type_string(col_type) ==
  LET full == TypeModule[col_type] \o <<col_type>>
  IN IF Len(full) > 1 /\ Head(full) = "sqlalchemy" THEN Tail(full) ELSE full

Result(exc, handler) == [exc |-> exc, handler |-> handler]

\* ModelTableConverterBase.get_converter
get_converter(self, column_type) ==
  IF self.attrs["use_mro"] /\ "inspect" \notin ModuleGlobals
  THEN Result("NameError", "")
  ELSE
    LET types == IF self.attrs["use_mro"] THEN getmro(column_type)
                 ELSE <<column_type>>
    IN IF "converters" \notin DOMAIN self.attrs
       THEN Result("AttributeError", "")
       ELSE
         LET convs == self.attrs["converters"]
             qual == {i \in DOMAIN types : type_string(types[i]) \in DOMAIN convs}
             bare == {i \in DOMAIN types : <<types[i]>> \in DOMAIN convs}
             first(S) == CHOOSE i \in S : \A j \in S : i <= j
         IN IF qual # {} THEN Result("none", convs[type_string(types[first(qual)])])
            ELSE IF bare # {} THEN Result("none", convs[<<types[first(bare)]>>])
            \* the message's format spec ':r' on a class raises TypeError
            \* before ModelTableConversionError is constructed
            ELSE Result("TypeError", "")

VARIABLES converter, lookup

cvars == <<converter, lookup>>

ConvInit ==
  /\ \E extra \in ExtraConverterChoices, use_mro \in BOOLEAN :
       converter = [self |-> ConverterInit(extra, use_mro),
                    extra_converters |-> extra]
  /\ lookup = [called |-> FALSE, column_type |-> "", result |-> Result("none", "")]

GetConverter ==
  /\ \E t \in TypeNames :
       lookup' = [called |-> TRUE, column_type |-> t,
                  result |-> get_converter(converter.self, t)]
  /\ UNCHANGED converter

\* ------------------------------------------------------------ database ----

NULL == 0

\* the rows of the four tables: accounts(id, name), items(id, name, price),
\* orders(id, account_id), orders_items(id, order_id, item_id)
EmptyDb == [accounts |-> {}, items |-> {}, orders |-> {}, orders_items |-> {}]

Fresh(d) == d = EmptyDb

\* names of rows that may be stored before the program starts
PreAccountNames == <<<<"account1">>, <<"guest">>, <<"staff">>>>
PreItemNames == <<<<"<", "td", ">">>, <<"Pencil">>, <<"Stapler">>>>

PreDb(na, ni, no) ==
  [accounts |-> {[id |-> i, name |-> PreAccountNames[i]] : i \in 1..na},
   items |-> {[id |-> i, name |-> PreItemNames[i], price |-> 5 * i] : i \in 1..ni},
   orders |-> {[id |-> i, account_id |-> IF na > 0 THEN 1 ELSE NULL] : i \in 1..no},
   orders_items |-> {[id |-> i, order_id |-> i, item_id |-> 1] :
                       i \in IF ni > 0 THEN 1..no ELSE {}}]

NextId(rows) ==
  IF rows = {} THEN 1
  ELSE (CHOOSE r \in rows : \A q \in rows : q.id <= r.id).id + 1

\* the objects init_data adds to its session, in the order it adds them
SeedAccounts == <<<<"account1">>, <<"account2">>, <<"account3">>, <<"account4">>>>

SeedItems ==
  << [name |-> <<"Pencil">>, price |-> 10],
     [name |-> <<"Notebook">>, price |-> 50],
     [name |-> <<"Eraser">>, price |-> 15],
     [name |-> <<"Straight Edge">>, price |-> 50],
     [name |-> <<"Protractor">>, price |-> 50],
     [name |-> <<"Desk">>, price |-> 10000],
     [name |-> <<"Chair">>, price |-> 5000] >>

\* the order created with one item only
SeedOrdersOneItem == << [account |-> 1, items |-> <<1>>] >>

\* Order(account=account1, items=[pencil, notebook]): positions in the lists
SeedOrders == << [account |-> 1, items |-> <<1, 2>>] >>

SeedPending == [accounts |-> SeedAccounts, items |-> SeedItems, orders |-> SeedOrders]

Range(f) == {f[i] : i \in DOMAIN f}

Distinct(f) == \A i, j \in DOMAIN f : i # j => f[i] # f[j]

\* the unique constraints on accounts.name and items.name hold after the flush
UniqueOk(d, pending) ==
  /\ Distinct(pending.accounts)
  /\ Range(pending.accounts) \cap {r.name : r \in d.accounts} = {}
  /\ Distinct([i \in DOMAIN pending.items |-> pending.items[i].name])
  /\ {it.name : it \in Range(pending.items)} \cap {r.name : r \in d.items} = {}

\* Session.commit: flush the pending objects (parents before children, ids by
\* autoincrement) and commit; an IntegrityError leaves the database as it was
Session_commit(d, pending) ==
  IF ~UniqueOk(d, pending) THEN [exc |-> "IntegrityError", db |-> d]
  ELSE
    LET a0 == NextId(d.accounts) - 1
        i0 == NextId(d.items) - 1
        o0 == NextId(d.orders) - 1
        l0 == NextId(d.orders_items) - 1
        links == UNION {{<<o, k>> : k \in DOMAIN pending.orders[o].items} :
                          o \in DOMAIN pending.orders}
        linkNo(p) ==
          Cardinality({q \in links : q[1] < p[1] \/ (q[1] = p[1] /\ q[2] <= p[2])})
    IN [exc |-> "none",
        db |-> [accounts |-> d.accounts \cup
                   {[id |-> a0 + i, name |-> pending.accounts[i]] :
                      i \in DOMAIN pending.accounts},
                items |-> d.items \cup
                   {[id |-> i0 + i, name |-> pending.items[i].name,
                     price |-> pending.items[i].price] : i \in DOMAIN pending.items},
                orders |-> d.orders \cup
                   {[id |-> o0 + o, account_id |-> a0 + pending.orders[o].account] :
                      o \in DOMAIN pending.orders},
                orders_items |-> d.orders_items \cup
                   {[id |-> l0 + linkNo(p), order_id |-> o0 + p[1],
                     item_id |-> i0 + pending.orders[p[1]].items[p[2]]] :
                      p \in links}]]

\* Session.close / leaving `with Session(...)` without a commit: what was
\* pending is rolled back and the stored rows are what they were
Session_close(d, pending) == d

VARIABLES db, cli

dvars == <<db, cli>>

DbInit ==
  /\ \E na, ni, no \in 0..MaxPreRows : db = PreDb(na, ni, no)
  /\ cli = [runs |-> 0, exc |-> "none", fresh |-> FALSE]

\* the CLI command init_data
init_data ==
  /\ cli.runs < MaxSeedRuns
  /\ LET r == Session_commit(db, SeedPending)
     IN /\ db' = r.db
        /\ cli' = [runs |-> cli.runs + 1, exc |-> r.exc, fresh |-> Fresh(db)]

\* ------------------------------------------------------------ renderer ----

\* Base.registry.mappers: the mapped classes and their tables
Mappers ==
  { [class_ |-> "Item", table |-> "items"],
    [class_ |-> "Account", table |-> "accounts"],
    [class_ |-> "Order", table |-> "orders"],
    [class_ |-> "OrderItem", table |-> "orders_items"] }

\* Base.metadata.tables, in the order the classes define them
MetadataTables == <<"items", "accounts", "orders", "orders_items">>

\* a column property with its info['th']['text'] (None when not declared),
\* and a relationship property with its target class
Col(key, th) == [key |-> key, direction |-> None, target |-> "", th |-> th]
Rel(key, direction, target) ==
  [key |-> key, direction |-> Some(direction), target |-> target, th |-> None]

\* sa.inspect(model).attrs.values()
MapperAttrs(model) ==
  CASE model = "Item" ->
         <<Col("id", None), Col("name", Some(<<"Name">>)), Col("price", Some(<<"Price">>))>>
    [] model = "Account" ->
         <<Col("id", None), Col("name", Some(<<"Name">>)), Rel("orders", "ONETOMANY", "Order")>>
    [] model = "Order" ->
         <<Col("id", None), Col("account_id", None),
           Rel("account", "MANYTOONE", "Account"), Rel("items", "MANYTOMANY", "Item")>>
    [] model = "OrderItem" ->
         <<Col("id", None), Col("order_id", None), Col("item_id", None)>>

\* the loop returning its first mapper without comparing the table name
mapped_class_first(tablename) ==
  Some((CHOOSE m \in Mappers : TRUE).class_)

mapped_class_from_tablename(tablename) ==
  IF \E m \in Mappers : m.table = tablename
  THEN Some((CHOOSE m \in Mappers : m.table = tablename).class_)
  ELSE None

RECURSIVE Flatten(_)
Flatten(ss) == IF ss = <<>> THEN <<>> ELSE Head(ss) \o Flatten(Tail(ss))

RECURSIVE SeqById(_)
SeqById(rows) ==
  IF rows = {} THEN <<>>
  ELSE LET m == CHOOSE r \in rows : \A q \in rows : r.id <= q.id
       IN <<m>> \o SeqById(rows \ {m})

Tag(name) == <<"<", name, ">">>

\* markupsafe.escape on plain text
escape_text(text) ==
  [i \in DOMAIN text |->
     CASE text[i] = "<" -> "&lt;"
       [] text[i] = ">" -> "&gt;"
       [] text[i] = "&" -> "&amp;"
       [] text[i] = "\"" -> "&#34;"
       [] text[i] = "'" -> "&#39;"
       [] OTHER -> text[i]]

\* the values getattr(inst, key) gives: text (a str, or what str() makes of an
\* int, None or a mapped object), Markup, or a list of such texts
Text(t) == [kind |-> "text", text |-> t, elems |-> <<>>]
Markup(t) == [kind |-> "markup", text |-> t, elems |-> <<>>]
List(es) == [kind |-> "list", text |-> <<>>, elems |-> es]

\* markupsafe.escape: Markup passes unchanged, anything else is escaped
escape(obj) == IF obj.kind = "markup" THEN obj.text ELSE escape_text(obj.text)

ReprOf(class_) == <<"<", "tables." \o class_ \o " object", ">">>

ColumnText(v) == IF v = NULL THEN <<"None">> ELSE <<ToString(v)>>

\* getattr(inst, key) for an instance `row` of `model` loaded from database d
GetAttr(d, model, row, key) ==
  CASE key = "name" -> Text(row.name)
    [] key = "orders" ->
         List([i \in 1..Cardinality({o \in d.orders : o.account_id = row.id}) |->
                 ReprOf("Order")])
    [] key = "account" ->
         IF \E a \in d.accounts : a.id = row.account_id
         THEN Text(ReprOf("Account")) ELSE Text(<<"None">>)
    [] key = "items" ->
         List([i \in 1..Cardinality({l \in d.orders_items : l.order_id = row.id}) |->
                 ReprOf("Item")])
    [] OTHER -> Text(ColumnText(row[key]))

th_from_property(prop) ==
  IF prop.direction # None THEN escape(Text(<<prop.target>>))
  ELSE IF prop.th # None THEN prop.th[1]
  ELSE <<prop.key>>

ul(items) ==
  Markup(Tag("ul")
         \o Flatten([i \in DOMAIN items |->
                       Tag("li") \o escape(Text(items[i])) \o Tag("/li")])
         \o Tag("/ul"))

\* td without the call of markupsafe.escape
td_unescaped(obj) ==
  LET inner == IF obj.kind = "list" THEN ul(obj.elems) ELSE obj
  IN Tag("td") \o inner.text \o Tag("/td")

td(obj) ==
  LET inner == IF obj.kind = "list" THEN ul(obj.elems) ELSE obj
  IN Tag("td") \o escape(inner) \o Tag("/td")

\* Session.merge(inst): an instance the session itself loaded is already in
\* its identity map and nothing becomes pending
session_merge(sess, key) ==
  IF key \in sess.identity THEN sess
  ELSE [sess EXCEPT !.pending = @ \cup {key}]

\* the session after html_table merged every instance
RECURSIVE merge_all(_, _)
merge_all(sess, keys) ==
  IF keys = <<>> THEN sess
  ELSE merge_all(session_merge(sess, Head(keys)), Tail(keys))

html_table(d, model, instances) ==
  LET props == MapperAttrs(model)
      column_keys == [i \in DOMAIN props |-> props[i].key]
      th_list == Flatten([i \in DOMAIN props |->
                            Tag("th") \o th_from_property(props[i]) \o Tag("/th")])
      header_row == Tag("tr") \o th_list \o Tag("/tr")
      body_rows == [n \in DOMAIN instances |->
                      Tag("tr")
                      \o Flatten([i \in DOMAIN column_keys |->
                                    td(GetAttr(d, model, instances[n], column_keys[i]))])
                      \o Tag("/tr")]
  IN Tag("table") \o Tag("thead") \o header_row \o Tag("/thead")
     \o Tag("tbody") \o Flatten(body_rows) \o Tag("/tbody") \o Tag("/table")

\* ---------------------------------------------------------- dispatcher ----

\* the tablename of a request: None for /tables/, else the text of the URL
TablenameChoices ==
  {None} \cup {Some(t) : t \in Range(MetadataTables)} \cup {Some("Item"), Some("nosuch")}

\* flask.url_for(flask.request.endpoint, tablename=tablename)
url_for(tablename) == <<"/tables/", tablename>>

\* MetadataView.dispatch_list
dispatch_list ==
  LET classes == [i \in DOMAIN MetadataTables |->
                    mapped_class_from_tablename(MetadataTables[i])]
      element(i) ==
        Tag("li") \o <<"<", "a href=", "\"">> \o url_for(MetadataTables[i])
        \o <<"\"", ">">> \o classes[i] \o Tag("/a") \o Tag("/li")
  IN IF \E i \in DOMAIN classes : classes[i] = None
     THEN [exc |-> "AttributeError", html |-> <<>>]
     ELSE [exc |-> "none",
           html |-> Tag("ul") \o Flatten([i \in DOMAIN MetadataTables |-> element(i)])
                    \o Tag("/ul")]

\* dispatch_request accepting the names of the mapped classes as well
dispatch_branch_by_class(tablename) ==
  IF tablename = None THEN "list"
  ELSE IF tablename[1] \in Range(MetadataTables) \cup {m.class_ : m \in Mappers} THEN "table"
  ELSE "abort"

\* the branch MetadataView.dispatch_request takes
dispatch_branch(tablename) ==
  IF tablename = None THEN "list"
  ELSE IF tablename[1] \in Range(MetadataTables) THEN "table"
  ELSE "abort"

NewSession == [open |-> TRUE, identity |-> {}, pending |-> {}]

\* a session that is left open when the block is left
Session_exit_leaky(sess) == [open |-> TRUE, identity |-> {}, pending |-> {}]

\* Session.__exit__: close()
Session_exit(sess) == [open |-> FALSE, identity |-> {}, pending |-> {}]

\* session.scalars(select(class_)): the instances enter the identity map
session_scalars(sess, model, instances) ==
  [sess EXCEPT !.identity = @ \cup {<<model, instances[i].id>> : i \in DOMAIN instances}]

\* the session of dispatch_table when html_table returns
session_after_table(sess, model, instances) ==
  merge_all(session_scalars(sess, model, instances),
            [i \in DOMAIN instances |-> <<model, instances[i].id>>])

\* dispatch_table deleting the instances it read and committing
dispatch_table_db_commit(d, sess) ==
  [t \in DOMAIN d |->
     {row \in d[t] :
        \A m \in Mappers : m.table = t => <<m.class_, row.id>> \notin sess.identity}]

\* the stored rows after dispatch_table left its `with` block
dispatch_table_db(d, sess) == Session_close(d, sess.pending)

\* what Flask answers for the value or exception of the view function
Response(exc, html) ==
  [status |-> CASE exc = "none" -> 200 [] exc = "NotFound" -> 404 [] OTHER -> 500,
   exc |-> exc, body |-> html]

NoResponse == [status |-> 0, exc |-> "none", body |-> <<>>]

VARIABLES req, sessions

rvars == <<req, sessions>>

Requests == 1..MaxRequests

ReqInit ==
  /\ req = [r \in Requests |->
              [pc |-> "idle", tablename |-> None, session |-> 0,
               response |-> NoResponse, seen |-> EmptyDb]]
  /\ sessions = <<>>

Done(r, response, seen) ==
  req' = [req EXCEPT ![r].pc = "done", ![r].response = response, ![r].seen = seen]

\* MetadataView.dispatch_request up to its return, or for a table up to the
\* point where dispatch_table has opened its session
dispatch_request(r) ==
  /\ req[r].pc = "idle"
  /\ IF r = 1 THEN TRUE ELSE req[r - 1].pc # "idle"
  /\ \E tablename \in TablenameChoices :
       LET branch == dispatch_branch(tablename)
           class_ == mapped_class_from_tablename(tablename[1])
       IN CASE branch = "list" ->
                 /\ req' = [req EXCEPT ![r].pc = "done", ![r].tablename = tablename,
                              ![r].response = Response(dispatch_list.exc, dispatch_list.html)]
                 /\ UNCHANGED sessions
            [] branch = "abort" ->
                 /\ req' = [req EXCEPT ![r].pc = "done", ![r].tablename = tablename,
                              ![r].response = Response("NotFound", <<>>)]
                 /\ UNCHANGED sessions
            [] branch = "table" /\ class_ = None ->
                 \* sa.select(None) raises before the session is opened
                 /\ req' = [req EXCEPT ![r].pc = "done", ![r].tablename = tablename,
                              ![r].response = Response("ArgumentError", <<>>)]
                 /\ UNCHANGED sessions
            [] OTHER ->
                 /\ sessions' = Append(sessions, NewSession)
                 /\ req' = [req EXCEPT ![r].pc = "in_session", ![r].tablename = tablename,
                              ![r].session = Len(sessions) + 1]
  /\ UNCHANGED db

\* the body of `with sa.orm.Session(engine) as session` in dispatch_table,
\* and leaving the block
dispatch_table(r) ==
  /\ req[r].pc = "in_session"
  /\ LET tablename == req[r].tablename[1]
         class_ == mapped_class_from_tablename(tablename)[1]
         instances == SeqById(db[tablename])
         sess == session_after_table(sessions[req[r].session], class_, instances)
         html == Tag("h1") \o <<tablename>> \o Tag("/h1")
                 \o html_table(db, class_, instances)
     IN /\ db' = dispatch_table_db(db, sess)
        /\ sessions' = [sessions EXCEPT ![req[r].session] = Session_exit(sess)]
        /\ Done(r, Response("none", html), db)

\* the database fails while dispatch_table reads: the exception leaves the
\* `with` block, which closes the session, and Flask answers 500
DatabaseError(r) ==
  /\ req[r].pc = "in_session"
  /\ sessions' = [sessions EXCEPT ![req[r].session] = Session_exit(@)]
  /\ Done(r, Response("OperationalError", <<>>), db)
  /\ UNCHANGED db

vars == <<converter, lookup, db, cli, req, sessions>>

\* the web application and its CLI; tables.py itself constructs no converter,
\* one with the default arguments stands by
Init ==
  /\ converter = [self |-> ConverterInit(None, TRUE), extra_converters |-> None]
  /\ lookup = [called |-> FALSE, column_type |-> "", result |-> Result("none", "")]
  /\ DbInit
  /\ ReqInit

Next ==
  \/ init_data /\ UNCHANGED <<converter, lookup, req, sessions>>
  \/ \E r \in Requests : dispatch_request(r) /\ UNCHANGED <<converter, lookup, cli>>
  \/ \E r \in Requests : dispatch_table(r) /\ UNCHANGED <<converter, lookup, cli>>

Spec == Init /\ [][Next]_vars

\* the same program with a database that may fail under a request
NextFault ==
  \/ init_data /\ UNCHANGED <<converter, lookup, req, sessions>>
  \/ \E r \in Requests : dispatch_request(r) /\ UNCHANGED <<converter, lookup, cli>>
  \/ \E r \in Requests : dispatch_table(r) /\ UNCHANGED <<converter, lookup, cli>>
  \/ \E r \in Requests : DatabaseError(r) /\ UNCHANGED <<converter, lookup, cli>>

SpecFault == Init /\ [][NextFault]_vars

\* the converter registry: any construction, then lookups
InitRegistry == ConvInit /\ DbInit /\ ReqInit

NextRegistry == GetConverter /\ UNCHANGED <<db, cli, req, sessions>>

SpecRegistry == InitRegistry /\ [][NextRegistry]_vars

\* ------------------------------------------------------------ properties --

\* the registry a construction is meant to build: the extra converters, then
\* every name a handler declares through converts(...)
Registered ==
  LET extra == IF converter.extra_converters = None THEN <<>>
               ELSE converter.extra_converters[1]
      declared == {<<d[1]>> : d \in ConvertsDeclarations}
  IN [k \in DOMAIN extra \cup declared |->
        IF k \in declared
        THEN (CHOOSE d \in ConvertsDeclarations : <<d[1]>> = k)[2]
        ELSE extra[k]]

\* the types get_converter is to walk for the column of the last lookup
Chain ==
  IF converter.self.attrs["use_mro"] THEN getmro(lookup.column_type)
  ELSE <<lookup.column_type>>

\* the identifiers to try, in priority order: qualified names, then bare names
Identifiers ==
  [i \in DOMAIN Chain |-> type_string(Chain[i])] \o [i \in DOMAIN Chain |-> <<Chain[i]>>]

Found == {i \in DOMAIN Identifiers : Identifiers[i] \in DOMAIN Registered}

\* C1: after construction, get_converter on a column whose type is exactly a
\* registered type name T returns the handler registered for T.
C1_ExactTypeReturnsHandler ==
  (lookup.called /\ <<lookup.column_type>> \in DOMAIN Registered)
    => /\ lookup.result.exc = "none"
       /\ lookup.result.handler = Registered[<<lookup.column_type>>]

\* C2: with use_mro, a column whose own type is not registered but which has a
\* registered ancestor gets the handler of the nearest registered ancestor.
C2_AncestorHandler ==
  LET chain == getmro(lookup.column_type)
      reg(i) == <<chain[i]>> \in DOMAIN Registered
                \/ type_string(chain[i]) \in DOMAIN Registered
      anc == {i \in DOMAIN chain : i > 1 /\ reg(i)}
      near == CHOOSE i \in anc : \A j \in anc : i <= j
  IN (lookup.called /\ converter.self.attrs["use_mro"] /\ ~reg(1) /\ anc # {})
       => /\ lookup.result.exc = "none"
          /\ lookup.result.handler \in
               {Registered[k] : k \in {<<chain[near]>>, type_string(chain[near])}
                                        \cap DOMAIN Registered}

\* C3: get_converter on a column none of whose chain types is registered, by
\* qualified or by bare name, raises ModelTableConversionError.
C3_NotFoundError ==
  (lookup.called /\ Found = {})
    => lookup.result = Result("ModelTableConversionError", "")

\* C9: get_converter returns the handler of the first registered identifier in
\* the order: qualified names of the chain, then bare names of the chain.
C9_PriorityOrder ==
  (lookup.called /\ Found # {})
    => lookup.result =
         Result("none", Registered[Identifiers[CHOOSE i \in Found : \A j \in Found : i <= j]])

\* ---- reading an HTML token sequence back

TagPositions(html, name) ==
  {i \in 1..(Len(html) - 2) : html[i] = "<" /\ html[i + 1] = name /\ html[i + 2] = ">"}

StartsWith(html, prefix) ==
  Len(html) >= Len(prefix) /\ SubSeq(html, 1, Len(prefix)) = prefix

Least(S) == CHOOSE i \in S : \A j \in S : i <= j

\* the positions where an <a href=...> tag opens, and the text after its ">"
Anchors(html) == {i \in 1..(Len(html) - 1) : html[i] = "<" /\ html[i + 1] = "a href="}

AnchorText(html, i) == html[Least({j \in i..Len(html) : html[j] = ">"}) + 1]

SchemaTables == {"items", "accounts", "orders", "orders_items"}

Entities == {"Item", "Account", "Order", "OrderItem"}

IsListResponse(resp) ==
  resp.status = 200 /\ StartsWith(resp.body, Tag("ul")) /\ TagPositions(resp.body, "table") = {}

IsTableResponse(resp, tablename) ==
  /\ resp.status = 200
  /\ StartsWith(resp.body, Tag("h1") \o <<tablename>> \o Tag("/h1") \o Tag("table"))
  /\ Cardinality(TagPositions(resp.body, "table")) = 1

IsNotFoundResponse(resp) == resp.status = 404 /\ resp.body = <<>>

\* C4: every completed request has the one outcome its tablename decides: the
\* list for no tablename, the table for a table of the schema, else a 404.
C4_ThreeOutcomes ==
  \A r \in Requests :
    req[r].pc = "done" =>
      LET t == req[r].tablename
          resp == req[r].response
      IN IF t = None
         THEN IsListResponse(resp)
         ELSE IF t[1] \in SchemaTables
         THEN IsTableResponse(resp, t[1])
         ELSE IsNotFoundResponse(resp)

C4_Witness ==
  \E r1, r2 \in Requests :
    /\ req[r1].pc = "done" /\ req[r1].tablename = Some("Item")
    /\ req[r1].response.status = 404
    /\ req[r2].pc = "done" /\ req[r2].tablename = Some("orders")
    /\ req[r2].response.status = 200

\* C5: a rendered table has one header cell per mapped property of the entity
\* and one body row per stored instance, each row with one cell per property.
C5_HeaderAndRows ==
  \A r \in Requests :
    (req[r].pc = "done" /\ req[r].tablename # None
       /\ dispatch_branch(req[r].tablename) = "table" /\ req[r].response.status = 200) =>
      LET tablename == req[r].tablename[1]
          body == req[r].response.body
          nprops == Len(MapperAttrs(mapped_class_from_tablename(tablename)[1]))
          trs == TagPositions(body, "tr")
          End(p) == Least({e \in TagPositions(body, "/tr") : e > p})
          cells(p, name) ==
            Cardinality({i \in TagPositions(body, name) : p < i /\ i < End(p)})
          theadEnd == Least(TagPositions(body, "/thead"))
      IN /\ Cardinality({p \in trs : p < theadEnd}) = 1
         /\ \A p \in trs : p < theadEnd => cells(p, "th") = nprops
         /\ Cardinality(TagPositions(body, "th")) = nprops
         /\ Cardinality({p \in trs : p > theadEnd}) = Cardinality(req[r].seen[tablename])
         /\ \A p \in trs : p > theadEnd => cells(p, "td") = nprops

C5_Witness ==
  \E r \in Requests :
    /\ req[r].pc = "done" /\ req[r].tablename = Some("items")
    /\ req[r].response.status = 200
    /\ \E row \in req[r].seen.items : row.name = <<"<", "td", ">">>
    /\ Cardinality(req[r].seen.items) > 1

\* C6: the list has exactly one link per entity: Item, Account, Order and
\* OrderItem each once and nothing else.
C6_OneLinkPerEntity ==
  \A r \in Requests :
    (req[r].pc = "done" /\ req[r].tablename = None) =>
      LET body == req[r].response.body
      IN /\ req[r].response.status = 200
         /\ Cardinality(Anchors(body)) = 4
         /\ {AnchorText(body, i) : i \in Anchors(body)} = Entities

C6_Witness ==
  \E r \in Requests :
    /\ req[r].pc = "done" /\ req[r].tablename = None
    /\ Anchors(req[r].response.body) # {}

\* C7: init_data run against an empty database leaves 4 accounts, 7 items and
\* 1 order that references one account and is joined to exactly 2 items.
C7_SeedCounts ==
  (cli.runs > 0 /\ cli.fresh) =>
    /\ cli.exc = "none"
    /\ Cardinality(db.accounts) = 4
    /\ Cardinality(db.items) = 7
    /\ Cardinality(db.orders) = 1
    /\ Cardinality(db.orders_items) = 2
    /\ \A o \in db.orders :
         /\ Cardinality({a \in db.accounts : a.id = o.account_id}) = 1
         /\ Cardinality({l.item_id : l \in {k \in db.orders_items : k.order_id = o.id}}
                        \cap {i.id : i \in db.items}) = 2

C7_Witness == cli.runs = 1 /\ cli.fresh /\ db.orders # {}

\* C10: no step of a request changes the stored rows of any entity.
C10_RequestsReadOnly == [][(req' # req) => (db' = db)]_vars

C10_Witness ==
  \E r \in Requests :
    /\ req[r].pc = "done" /\ req[r].tablename = Some("orders")
    /\ req[r].seen.orders # {} /\ req[r].seen.orders_items # {}
    /\ db = req[r].seen

\* C8 as stated: every completed request has opened a session of its own and
\* that session is closed.
C8_EveryRequestOpensSession ==
  \A r \in Requests :
    req[r].pc = "done" =>
      /\ req[r].session \in DOMAIN sessions
      /\ ~sessions[req[r].session].open

\* C8 as amended: a request for a table of the schema opens one session of its
\* own, a list or unknown-name request opens none; no session of a completed
\* request is open, whether it ended with a response or an error, a request
\* inside its block holds an open session, and no two requests hold the same
\* session.
C8_SessionScopedToRequest ==
  /\ \A r \in Requests :
       /\ req[r].pc = "done" =>
            /\ (req[r].session # 0) <=>
                 (req[r].tablename # None /\ req[r].tablename[1] \in SchemaTables)
            /\ req[r].session # 0 =>
                 (req[r].session \in DOMAIN sessions /\ ~sessions[req[r].session].open)
       /\ req[r].pc = "in_session" =>
            (req[r].session \in DOMAIN sessions /\ sessions[req[r].session].open)
       /\ req[r].pc = "idle" => req[r].session = 0
  /\ \A r1, r2 \in Requests :
       (r1 # r2 /\ req[r1].session # 0) => req[r1].session # req[r2].session
  /\ \A s \in DOMAIN sessions :
       sessions[s].open => \E r \in Requests : req[r].pc = "in_session" /\ req[r].session = s

C8_Witness ==
  \E r1, r2 \in Requests :
    /\ req[r1].pc = "done" /\ req[r1].response.exc = "OperationalError"
    /\ req[r2].pc = "done" /\ req[r2].response.status = 200
    /\ req[r1].session # 0 /\ req[r2].session # 0
    /\ \A s \in DOMAIN sessions : ~sessions[s].open
====
